---- MODULE Spec2Model ----
(***************************************************************************)
(* Verification-state engine of the ISO compliance tooling:                *)
(*   scripts/create_initial_status.py      (initialize)                    *)
(*   scripts/update_verification_status.py (set_level, show, statistics)   *)
(*   scripts/generate_compliance_report.py (report)                        *)
(*   tools/master_compliance_analyzer.py   (evidence scan)                 *)
(*   scripts/convert_json_to_matrix.py     (catalog builder)               *)
(*                                                                         *)
(* The Ledger is the file ISO_VERIFICATION_STATUS.toml.  Every invocation  *)
(* is one process: it loads the whole file, changes it in memory and       *)
(* rewrites it.  Each entry lives under ONE flat top-level key             *)
(*      status."<id>"                                                      *)
(* which the toml writer has to quote and escape, and which the toml       *)
(* reader gives back without undoing the escapes.  A key is therefore      *)
(* modelled as [bs, id]: the text  status.  then bs backslashes, a double  *)
(* quote, the id, bs backslashes and a double quote.                       *)
(*                                                                         *)
(* Spec runs whole invocations one after another.  SpecMalformed starts    *)
(* from a Ledger file with a level outside 0..4.  ConcSpec runs two        *)
(* updater invocations whose load and rewrite interleave; CrashSpec runs   *)
(* one whose rewrite can die between open(.., 'w') and the end of dump.    *)
(* ScanSpec runs the analyzer's two computations on a loaded master file   *)
(* and corpus; BuildSpec runs the builder and then initialize.             *)
(*                                                                         *)
(* Numbers: average_level is kept in thousandths (round(x, 3)) and         *)
(* compliance_percentage in hundredths (round(x, 2)), as integers.         *)
(***************************************************************************)
EXTENDS Integers, Sequences, FiniteSets, TLC

VARIABLES matrix,   \* ISO_COMPLIANCE_MATRIX.toml as loaded: section key -> requirement ids
          file,     \* ISO_VERIFICATION_STATUS.toml on disk, or NoFile
          now,      \* datetime.now(), a counter
          last,     \* what the last invocation printed / returned
          origin,   \* who wrote the entry keys of the file: "absent", "historic", "initialize"
          procs,    \* updater invocations that run step by step (ConcSpec, CrashSpec)
          builder,  \* the catalog builder's input and output (BuildSpec)
          scan      \* the analyzer object of the evidence scanner (ScanSpec)

vars == <<matrix, file, now, last, origin, procs, builder, scan>>

-----------------------------------------------------------------------------
(* Bounds *)

MaxReqs  == 3       \* requirements per Matrix section
MaxClock == 3       \* clock values the model runs through

Ids        == {"A", "B", "C"}          \* requirement ids of the section_ section
OtherIds   == {"D"}                    \* requirement ids of the other section
UnknownId  == "Z"                      \* an id no Matrix holds
ArgIds     == Ids \cup {UnknownId}
ArgLevels  == -1 .. 5                  \* --level as the function receives it
ArgTexts   == { <<"", "", "">>, <<"src/x.rs", "", "">>, <<"", "tests/t.rs", "checked">> }
HistoricLevels == {0, 3}               \* levels found in a Ledger left by earlier runs

IdOrd == [i \in Ids \cup OtherIds \cup {UnknownId} |->
            CASE i = "A" -> 1 [] i = "B" -> 2 [] i = "C" -> 3 [] i = "D" -> 4 [] OTHER -> 5]

NoFile == [missing |-> TRUE]

\* The files the tools open for writing
MATRIX_FILE == "ISO_COMPLIANCE_MATRIX.toml"
STATUS_FILE == "ISO_VERIFICATION_STATUS.toml"

initialize_output_path == STATUS_FILE

updater_output_path_matrix == MATRIX_FILE

updater_output_path == STATUS_FILE

report_output_path_status == STATUS_FILE

report_output_path == "iso_compliance_report_<timestamp>"

scanner_output_path == "examples/results/DEFINITIVE_ISO_COMPLIANCE.md"

\* what the Ledger file / the Matrix file hold after `content` was written to `path`
StatusAfterWrite(path, content, f) == IF path = STATUS_FILE THEN content ELSE f

\* a file of another tool read as a Matrix: tables, none of them a section
OverwrittenMatrix == [k \in { <<"metadata", "">> } |-> <<>>]

MatrixAfterWrite(path, content, m) == IF path = MATRIX_FILE THEN OverwrittenMatrix ELSE m

Range(s) == { s[i] : i \in DOMAIN s }

SeqsUpTo(S, n) == UNION { [1..k -> S] : k \in 0..n }

-----------------------------------------------------------------------------
(* The Matrix *)

SectionKey == <<"section_", "7_syntax">>
OtherKey   == <<"annex_", "a">>

\* str.startswith on a key held as <<first token, rest>>
StartsWith(key, prefix) == key[1] = prefix

\* Requirement lists up to a renaming of the ids: an id occurs for the first
\* time only after every id before it in IdOrd has occurred (<<A,B,A>> stands
\* for <<B,C,B>> too).  Duplicates and unsorted lists are kept.
FirstUse(s) ==
    \A i \in DOMAIN s : \A j \in 1 .. (IdOrd[s[i]] - 1) : \E h \in 1 .. (i - 1) : IdOrd[s[h]] = j

Matrices ==
    { m \in UNION { [K -> SeqsUpTo(Ids \cup OtherIds, MaxReqs)] : K \in SUBSET {SectionKey, OtherKey} } :
        /\ SectionKey \in DOMAIN m => (Range(m[SectionKey]) \subseteq Ids /\ FirstUse(m[SectionKey]))
        /\ OtherKey \in DOMAIN m => (Range(m[OtherKey]) \subseteq OtherIds /\ Len(m[OtherKey]) = 1) }

\* every requirement id the Matrix holds, whatever its section
MatrixIds(m) == UNION { Range(m[k]) : k \in DOMAIN m }

\* two requirement records of the Matrix carry the same id
HasDuplicateIds(m) ==
    \E k1 \in DOMAIN m, k2 \in DOMAIN m :
        \E i \in DOMAIN m[k1], j \in DOMAIN m[k2] : <<k1, i>> # <<k2, j>> /\ m[k1][i] = m[k2][j]

-----------------------------------------------------------------------------
(* toml.dump / toml.load on the flat entry keys *)

\* toml.dump: a key that is not [A-Za-z0-9_-]+ is written quoted, its
\* backslashes doubled and one more put before each double quote.
dump_key(k) == [q |-> TRUE, bs |-> 2 * k.bs + 1, id |-> k.id]

\* toml.load: a quoted table name loses its outer quotes only.
load_key(h) == [bs |-> h.bs, id |-> h.id]

toml_dump(status_data) ==
    [metadata   |-> status_data.metadata,
     statistics |-> status_data.statistics,
     entries    |-> [h \in { dump_key(k) : k \in DOMAIN status_data.entries } |->
                        status_data.entries[CHOOSE k \in DOMAIN status_data.entries : dump_key(k) = h]]]

toml_load(f) ==
    [metadata   |-> f.metadata,
     statistics |-> f.statistics,
     entries    |-> [k \in { load_key(h) : h \in DOMAIN f.entries } |->
                        f.entries[CHOOSE h \in DOMAIN f.entries : load_key(h) = k]]]

-----------------------------------------------------------------------------
(* scripts/create_initial_status.py *)

Never == -1     \* last_checked = 'never'

RECURSIVE ConcatSections(_, _)
ConcatSections(m, keys) ==
    IF keys = {} THEN <<>>
    ELSE LET k == CHOOSE x \in keys : TRUE
         IN  (IF StartsWith(k, "section_") THEN m[k] ELSE <<>>) \o ConcatSections(m, keys \ {k})

extract_all_requirement_ids(m) ==
    SortSeq(ConcatSections(m, DOMAIN m), LAMBDA a, b : IdOrd[a] < IdOrd[b])

\* the key create_initial_status stores an entry under:  status."<id>"
initial_status_key(req_id) == [bs |-> 0, id |-> req_id]

InitialEntry ==
    [level |-> 0, implementation |-> "", test_file |-> "", verified |-> FALSE,
     last_checked |-> Never, notes |-> "Pendiente de verificación"]

create_initial_status(m, requirement_ids, t) ==
    [metadata   |-> [last_updated |-> t, total_requirements |-> Len(requirement_ids)],
     entries    |-> [k \in { initial_status_key(requirement_ids[i]) : i \in DOMAIN requirement_ids } |->
                        InitialEntry],
     statistics |-> [level_0_count |-> Len(requirement_ids), level_1_count |-> 0,
                     level_2_count |-> 0, level_3_count |-> 0, level_4_count |-> 0,
                     average_level |-> 0, compliance_percentage |-> 0,
                     last_calculated |-> t]]

save_status_file(status_data) == toml_dump(status_data)

-----------------------------------------------------------------------------
(* scripts/update_verification_status.py *)

\* round(num/den, digits) as an integer number of 10^-digits: round half to even
RoundDiv(num, den) ==
    LET q == num \div den
        r == num % den
    IN  IF 2 * r < den THEN q
        ELSE IF 2 * r > den THEN q + 1
        ELSE IF q % 2 = 0 THEN q ELSE q + 1

RECURSIVE SumLevels(_, _)
SumLevels(entries, keys) ==
    IF keys = {} THEN 0
    ELSE LET k == CHOOSE x \in keys : TRUE
         IN  entries[k].level + SumLevels(entries, keys \ {k})

\* total_level / total_requirements, then round(average_level, 3): thousandths
average_level_floor(total_level, total_requirements) ==
    IF total_requirements > 0 THEN 1000 * (total_level \div total_requirements) ELSE 0

average_level(total_level, total_requirements) ==
    IF total_requirements > 0 THEN RoundDiv(1000 * total_level, total_requirements) ELSE 0

\* round((average_level / 4.0) * 100.0, 2) on the unrounded average: hundredths
compliance_percentage_of_5(total_level, total_requirements) ==
    IF total_requirements > 0 THEN RoundDiv(100 * 100 * total_level, 5 * total_requirements) ELSE 0

compliance_percentage(total_level, total_requirements) ==
    IF total_requirements > 0 THEN RoundDiv(100 * 100 * total_level, 4 * total_requirements) ELSE 0

\* the entries the loop of recalculate_statistics counts
Counted_above_zero(entries) == { k \in DOMAIN entries : 0 < entries[k].level /\ entries[k].level <= 4 }

Counted(entries) == { k \in DOMAIN entries : 0 <= entries[k].level /\ entries[k].level <= 4 }

recalculate_statistics_touching(status_data, t) ==
    LET e     == status_data.entries
        cnt   == Counted(e)
        n(l)  == Cardinality({ k \in cnt : e[k].level = l })
        total_level        == SumLevels(e, cnt)
        total_requirements == Cardinality(cnt)
    IN  [status_data EXCEPT !.entries = [k \in DOMAIN e |-> [e[k] EXCEPT !.last_checked = t]],
                            !.statistics =
            [level_0_count |-> n(0), level_1_count |-> n(1), level_2_count |-> n(2),
             level_3_count |-> n(3), level_4_count |-> n(4),
             average_level |-> average_level(total_level, total_requirements),
             compliance_percentage |-> compliance_percentage(total_level, total_requirements),
             last_calculated |-> t]]

recalculate_statistics(status_data, t) ==
    LET e     == status_data.entries
        cnt   == Counted(e)
        n(l)  == Cardinality({ k \in cnt : e[k].level = l })
        total_level        == SumLevels(e, cnt)
        total_requirements == Cardinality(cnt)
    IN  [status_data EXCEPT !.statistics =
            [level_0_count |-> n(0), level_1_count |-> n(1), level_2_count |-> n(2),
             level_3_count |-> n(3), level_4_count |-> n(4),
             average_level |-> average_level(total_level, total_requirements),
             compliance_percentage |-> compliance_percentage(total_level, total_requirements),
             last_calculated |-> t]]

level_valid_no_upper(level) == level >= 0

level_valid_no_lower(level) == level <= 4

level_valid(level) == level \in {0, 1, 2, 3, 4}

\* the 7 backslashes of the key the updater looks up (line 41)
UpdaterKeyDepth == 7

status_key(req_id) == [bs |-> UpdaterKeyDepth, id |-> req_id]

derive_verified_sticky(old, level) == old \/ level >= 3

\* status_data[status_key]['verified'] = level >= 3 (the old value is overwritten)
derive_verified(old, level) == level >= 3

\* print the error and return False: nothing is written
reject_rewrites(f, status_data, outcome) == [outcome |-> outcome, file |-> toml_dump(status_data)]

reject(f, status_data, outcome) == [outcome |-> outcome, file |-> f]

apply_update_clearing(entry, level, t, implementation, test_file, notes) ==
    [level          |-> level,
     verified       |-> derive_verified(entry.verified, level),
     last_checked   |-> t,
     implementation |-> implementation,
     test_file      |-> test_file,
     notes          |-> notes]

apply_update_no_stamp(entry, level, t, implementation, test_file, notes) ==
    [level          |-> level,
     verified       |-> derive_verified(entry.verified, level),
     last_checked   |-> entry.last_checked,
     implementation |-> IF implementation # "" THEN implementation ELSE entry.implementation,
     test_file      |-> IF test_file # "" THEN test_file ELSE entry.test_file,
     notes          |-> IF notes # "" THEN notes ELSE entry.notes]

apply_update(entry, level, t, implementation, test_file, notes) ==
    [level          |-> level,
     verified       |-> derive_verified(entry.verified, level),
     last_checked   |-> t,
     implementation |-> IF implementation # "" THEN implementation ELSE entry.implementation,
     test_file      |-> IF test_file # "" THEN test_file ELSE entry.test_file,
     notes          |-> IF notes # "" THEN notes ELSE entry.notes]

\* the whole function: what it returns and what is on disk afterwards
update_requirement_status(f, t, req_id, level, implementation, test_file, notes) ==
    IF f = NoFile THEN [outcome |-> "no_file", file |-> f]
    ELSE LET status_data == toml_load(f)
             key == status_key(req_id)
         IN  IF ~level_valid(level) THEN reject(f, status_data, "invalid_level")
             ELSE IF key \notin DOMAIN status_data.entries THEN reject(f, status_data, "not_found")
             ELSE LET upd == [status_data EXCEPT
                                !.entries[key] = apply_update(@, level, t, implementation, test_file, notes),
                                !.metadata.last_updated = t]
                  IN  [outcome |-> "updated", file |-> toml_dump(recalculate_statistics(upd, t))]

-----------------------------------------------------------------------------
(* The Ledger file as an invocation can find it *)

\* A Ledger that earlier runs of the updater left behind: its keys carry the
\* escapes of the rewrites it went through (dev-tools/fix_iso_status_toml.py
\* shows them), which is the form the updater's lookup key is written for.
HistoricLedger(m, lv) ==
    LET ids == Range(extract_all_requirement_ids(m))
        sd  == [metadata   |-> [last_updated |-> 0, total_requirements |-> Cardinality(ids)],
                statistics |-> [level_0_count |-> 0],
                entries    |-> [k \in { [bs |-> (UpdaterKeyDepth - 1) \div 2, id |-> i] : i \in ids } |->
                                  [InitialEntry EXCEPT
                                      !.level = lv[k.id],
                                      !.verified = (lv[k.id] >= 3),
                                      !.last_checked = IF lv[k.id] = 0 THEN Never ELSE 0]]]
    IN  toml_dump(recalculate_statistics(sd, 0))

\* Such a Ledger is taken to be a Ledger of the Matrix as the data model has
\* it: one entry per requirement id of the Matrix.
HistoricLedgers(m) ==
    IF HasDuplicateIds(m) \/ Range(extract_all_requirement_ids(m)) # MatrixIds(m) THEN {}
    ELSE { HistoricLedger(m, lv) : lv \in [Range(extract_all_requirement_ids(m)) -> HistoricLevels] }

NoCall == [op |-> "none", outcome |-> "none", id |-> "-", level |-> 0, old_level |-> 0, exit |-> 0,
           texts |-> <<"", "", "">>]

NoProcs == <<>>

NoBuilder == [built |-> FALSE]

NoScan == [phase |-> "none"]

Init ==
    /\ matrix \in Matrices
    /\ file \in {NoFile} \cup HistoricLedgers(matrix)
    /\ now = 1
    /\ last = NoCall
    /\ origin = IF file = NoFile THEN "absent" ELSE "historic"
    /\ procs = NoProcs
    /\ builder = NoBuilder
    /\ scan = NoScan

-----------------------------------------------------------------------------
(* create_initial_status.py main() *)

\* the Ledger file is absent, or the operator answers 'y' to the overwrite question
Initialize ==
    /\ now < MaxClock
    /\ LET content == save_status_file(create_initial_status(matrix, extract_all_requirement_ids(matrix), now))
       IN  /\ file' = StatusAfterWrite(initialize_output_path, content, file)
           /\ matrix' = MatrixAfterWrite(initialize_output_path, content, matrix)
    /\ now' = now + 1
    /\ last' = [NoCall EXCEPT !.op = "initialize", !.outcome = "created"]
    /\ origin' = "initialize"
    /\ UNCHANGED <<procs, builder, scan>>

\* the Ledger file exists and the operator does not answer 'y'
InitializeCancelled ==
    /\ file # NoFile
    /\ last' = [NoCall EXCEPT !.op = "initialize", !.outcome = "cancelled"]
    /\ UNCHANGED <<matrix, file, now, origin, procs, builder, scan>>

(* update_verification_status.py: one invocation of update_requirement_status *)

\* level of the entry the updater's key finds in f, 0 when it finds none
LevelBefore(f, req_id) ==
    IF f # NoFile /\ status_key(req_id) \in DOMAIN toml_load(f).entries
    THEN toml_load(f).entries[status_key(req_id)].level ELSE 0

\* exit status of  update_verification_status.py --req-id .. --level ..  :
\* argparse refuses a level outside choices=[0,1,2,3,4] with status 2, a
\* missing Ledger file is sys.exit(1), and main() drops the value that
\* update_requirement_status returns.
main_exit_code(level, outcome) ==
    IF level \notin {0, 1, 2, 3, 4} THEN 2
    ELSE IF outcome = "no_file" THEN 1
    ELSE 0

SetLevel(outcome) ==
    \E req_id \in ArgIds, level \in ArgLevels, txt \in ArgTexts :
        LET r == update_requirement_status(file, now, req_id, level, txt[1], txt[2], txt[3])
        IN  /\ r.outcome = outcome
            /\ outcome = "updated" => now < MaxClock
            /\ file' = IF outcome = "updated" THEN StatusAfterWrite(updater_output_path, r.file, file) ELSE r.file
            /\ matrix' = IF outcome = "updated" THEN MatrixAfterWrite(updater_output_path, r.file, matrix) ELSE matrix
            /\ now' = IF outcome = "updated" THEN now + 1 ELSE now
            /\ last' = [op |-> "set_level", outcome |-> outcome, id |-> req_id, level |-> level,
                        old_level |-> LevelBefore(file, req_id),
                        exit |-> main_exit_code(level, outcome),
                        texts |-> IF outcome = "updated" THEN txt ELSE NoCall.texts]
            /\ UNCHANGED <<origin, procs, builder, scan>>

\* load_current_status finds no file: sys.exit(1)
SetLevelNoFile       == file = NoFile /\ SetLevel("no_file")
\* "ERROR: Nivel ... inválido", return False
SetLevelInvalidLevel == file # NoFile /\ SetLevel("invalid_level")
\* "ERROR: Requisito ... no encontrado", return False
SetLevelNotFound     == file # NoFile /\ SetLevel("not_found")
\* the entry is changed and the whole file rewritten, return True
SetLevelUpdated      == file # NoFile /\ SetLevel("updated")

-----------------------------------------------------------------------------
(* scripts/update_verification_status.py: --show and --stats *)

show_requirement_status(f, req_id) ==
    IF f = NoFile THEN "no_file"
    ELSE IF status_key(req_id) \notin DOMAIN toml_load(f).entries THEN "not_found"
    ELSE "shown"

show_overall_statistics(f) == IF f = NoFile THEN "no_file" ELSE "shown"

\* load_current_status ends the run with status 1 when the Ledger file is missing
read_exit_code(outcome) == IF outcome = "no_file" THEN 1 ELSE 0

ShowRequirement ==
    \E req_id \in ArgIds :
        /\ last' = [NoCall EXCEPT !.op = "show", !.outcome = show_requirement_status(file, req_id),
                                  !.id = req_id,
                                  !.exit = read_exit_code(show_requirement_status(file, req_id))]
        /\ UNCHANGED <<matrix, file, now, origin, procs, builder, scan>>

ShowStatistics ==
    /\ last' = [NoCall EXCEPT !.op = "stats", !.outcome = show_overall_statistics(file),
                              !.exit = read_exit_code(show_overall_statistics(file))]
    /\ UNCHANGED <<matrix, file, now, origin, procs, builder, scan>>

-----------------------------------------------------------------------------
(* scripts/generate_compliance_report.py *)

ReportFormats == {"markdown", "html", "both"}
RecentShown == 10           \* recent_updates[:10]
UnimplementedShown == 20    \* unimplemented[:20]

\* the keys of the status entries in the order the file lists them
RECURSIVE EntryOrder(_)
EntryOrder(keys) ==
    IF keys = {} THEN <<>>
    ELSE LET k == CHOOSE x \in keys : \A y \in keys : IdOrd[x.id] <= IdOrd[y.id]
         IN  <<k>> \o EntryOrder(keys \ {k})

\* a > b on the strings of last_checked: 'never' is above every ISO
\* timestamp ('n' > '2'), timestamps of one format compare as their times
StrGreater(a, b) ==
    IF a = Never THEN b # Never
    ELSE b # Never /\ a > b

\* list.sort(key=.., reverse=True): descending, equal keys keep their order
RECURSIVE SortRecent(_)
SortRecent(s) ==
    IF s = <<>> THEN <<>>
    ELSE LET rest == SortRecent(SubSeq(s, 1, Len(s) - 1))
             x    == s[Len(s)]
             keep == { i \in 0 .. Len(rest) :
                          \A j \in 1 .. Len(rest) : j > i => StrGreater(x.last_checked, rest[j].last_checked) }
             p    == CHOOSE i \in keep : \A j \in keep : i <= j
         IN  SubSeq(rest, 1, p) \o <<x>> \o SubSeq(rest, p + 1, Len(rest))

Take(s, n) == SubSeq(s, 1, IF Len(s) < n THEN Len(s) ELSE n)

level_percentage_unguarded(count, total) ==
    [raises |-> total = 0, value |-> IF total = 0 THEN 0 ELSE RoundDiv(count * 1000, total)]

\* (count / total * 100) if total > 0 else 0, shown with one decimal: in tenths
level_percentage(count, total) ==
    [raises |-> FALSE, value |-> IF total > 0 THEN RoundDiv(count * 1000, total) ELSE 0]

generate_markdown_report(f) ==
    LET status_data == toml_load(f)
        stats  == status_data.statistics
        counts == <<stats.level_0_count, stats.level_1_count, stats.level_2_count,
                    stats.level_3_count, stats.level_4_count>>
        total  == counts[1] + counts[2] + counts[3] + counts[4] + counts[5]
        pct    == [i \in 1 .. 5 |-> level_percentage(counts[i], total)]
        order  == EntryOrder(DOMAIN status_data.entries)
        rows   == [i \in DOMAIN order |->
                      [req_id |-> order[i].id, level |-> status_data.entries[order[i]].level,
                       last_checked |-> status_data.entries[order[i]].last_checked]]
    IN  [outcome            |-> IF \E i \in 1 .. 5 : pct[i].raises THEN "error" ELSE "rendered",
         total_requirements |-> total,
         average_level      |-> stats.average_level,
         compliance         |-> stats.compliance_percentage,
         breakdown          |-> [i \in 1 .. 5 |-> pct[i].value],
         recent_updates     |-> Take(SortRecent(rows), RecentShown),
         unimplemented      |-> Take(SelectSeq(rows, LAMBDA r : r.level = 0), UnimplementedShown)]

GenerateReportNoFile ==
    /\ file = NoFile
    /\ \E format \in ReportFormats :
          last' = [NoCall EXCEPT !.op = "report", !.outcome = "no_file", !.exit = 1]
    /\ UNCHANGED <<matrix, file, now, origin, procs, builder, scan>>

GenerateReport ==
    /\ file # NoFile
    /\ \E format \in ReportFormats :
          LET doc == generate_markdown_report(file)
          IN  /\ file' = StatusAfterWrite(report_output_path, doc, file)
              /\ matrix' = MatrixAfterWrite(report_output_path, doc, matrix)
              /\ last' = [NoCall EXCEPT !.op = "report", !.outcome = doc.outcome,
                                        !.exit = IF doc.outcome = "rendered" THEN 0 ELSE 1]
    /\ UNCHANGED <<now, origin, procs, builder, scan>>

-----------------------------------------------------------------------------
(* tools/master_compliance_analyzer.py *)

ScanWords == {"catalog", "font", "the"}
ScanKeywords == { <<>>, <<"font">>, <<"font", "catalog">> }
ScanTexts == { <<"the">>, <<"the", "font">> }
ScanCounts == {0, 4, 9}       \* occurrences of a word in one source file
ScanFileNames == {"lib.rs", "fonts.rs"}
SourceFiles == { [w \in ScanWords |-> IF w = "font" THEN c ELSE IF w = "catalog" THEN 5 ELSE 9] : c \in ScanCounts }
pdf_terms == {"font"}         \* the PDF terms among ScanWords
ImplementedScore == 20
PartialScore == 8
PerFileCap == 5

\* re.findall(r'\\b\\w+\\b', ..) asks for backslashes the text does not hold
extract_basic_keywords(text) == <<>>

requirement_keywords(req) ==
    IF req.keywords # <<>> THEN req.keywords
    ELSE IF extract_basic_keywords(req.text) # <<>> THEN extract_basic_keywords(req.text)
    ELSE SelectSeq(req.text, LAMBDA w : w \in pdf_terms)

\* one keyword over self.source_files.values(): min(count, 5) where it occurs
RECURSIVE KeywordScore(_, _, _)
KeywordScore(keyword, source_files, names) ==
    IF names = {} THEN 0
    ELSE LET name  == CHOOSE x \in names : TRUE
             count == source_files[name][keyword]
         IN  (IF count > 0 THEN (IF count < PerFileCap THEN count ELSE PerFileCap) ELSE 0)
               + KeywordScore(keyword, source_files, names \ {name})

RECURSIVE SumScore(_, _, _)
SumScore(keywords, source_files, pos) ==
    IF pos > Len(keywords) THEN 0
    ELSE KeywordScore(keywords[pos], source_files, DOMAIN source_files)
           + SumScore(keywords, source_files, pos + 1)

calculate_evidence_score(req, source_files) ==
    SumScore(requirement_keywords(req), source_files, 1)

implementation_level(evidence_score) ==
    IF evidence_score >= ImplementedScore THEN "impl"
    ELSE IF evidence_score >= PartialScore THEN "partial"
    ELSE "missing"

EvidenceScan ==
    \E keywords \in ScanKeywords, text \in ScanTexts, source_files \in [ScanFileNames -> SourceFiles] :
        LET req    == [keywords |-> keywords, text |-> text]
            result == implementation_level(calculate_evidence_score(req, source_files))
        IN  /\ file' = StatusAfterWrite(scanner_output_path, [report |-> result], file)
            /\ matrix' = MatrixAfterWrite(scanner_output_path, [report |-> result], matrix)
            /\ last' = [NoCall EXCEPT !.op = "scan", !.outcome = result]
            /\ UNCHANGED <<now, origin, procs, builder, scan>>

-----------------------------------------------------------------------------

Next ==
    \/ Initialize
    \/ InitializeCancelled
    \/ SetLevelNoFile
    \/ SetLevelInvalidLevel
    \/ SetLevelNotFound
    \/ SetLevelUpdated
    \/ ShowRequirement
    \/ ShowStatistics
    \/ GenerateReportNoFile
    \/ GenerateReport
    \/ EvidenceScan

Spec == Init /\ [][Next]_vars

-----------------------------------------------------------------------------
(* A Ledger file that was edited by hand: some entry holds a level outside 0..4 *)

CorruptLevels == {7}

MalformedLedgers(m) ==
    IF HasDuplicateIds(m) \/ Range(extract_all_requirement_ids(m)) # MatrixIds(m) THEN {}
    ELSE { HistoricLedger(m, lv) :
              lv \in { x \in [Range(extract_all_requirement_ids(m)) -> HistoricLevels \cup CorruptLevels] :
                          \E i \in DOMAIN x : x[i] \in CorruptLevels } }

InitMalformed ==
    /\ matrix \in Matrices
    /\ file \in {NoFile} \cup MalformedLedgers(matrix)
    /\ now = 1
    /\ last = NoCall
    /\ origin = IF file = NoFile THEN "absent" ELSE "historic"
    /\ procs = NoProcs
    /\ builder = NoBuilder
    /\ scan = NoScan

SpecMalformed == InitMalformed /\ [][Next]_vars

-----------------------------------------------------------------------------
(* scripts/update_verification_status.py, one invocation step by step:
   load_current_status (line 33), then the checks and the change in memory,
   then open(STATUS_FILE, 'w') and toml.dump (lines 64-72) *)

Procs == {1, 2}
ConcLevels == {1, 4}        \* --level of the invocations that run side by side

Idle == [pc |-> "idle", snap |-> NoFile, pending |-> NoFile, id |-> "-", level |-> 0,
         outcome |-> "none", at |-> 0]

InitConc ==
    /\ matrix \in Matrices
    /\ file \in {NoFile} \cup HistoricLedgers(matrix)
    /\ now = 1
    /\ last = NoCall
    /\ origin = IF file = NoFile THEN "absent" ELSE "historic"
    /\ procs = [p \in Procs |-> Idle]
    /\ builder = NoBuilder
    /\ scan = NoScan

loaded_ledger_fresh(snap, current) == current

\* the data an invocation changes and writes is what it loaded at line 33:
\* nothing is read again and nothing is locked before the rewrite
loaded_ledger(snap, current) == snap

UpdaterLoad(p) ==
    /\ procs[p].pc = "idle"
    /\ \E req_id \in ArgIds, level \in ConcLevels :
          procs' = [procs EXCEPT ![p] =
                      IF file = NoFile
                      THEN [@ EXCEPT !.pc = "done", !.outcome = "no_file", !.id = req_id, !.level = level, !.at = now]
                      ELSE [@ EXCEPT !.pc = "loaded", !.snap = file, !.id = req_id, !.level = level]]
    /\ UNCHANGED <<matrix, file, now, last, origin, builder, scan>>

UpdaterFinish(p) ==
    /\ procs[p].pc = "loaded"
    /\ LET r == update_requirement_status(loaded_ledger(procs[p].snap, file), now,
                                          procs[p].id, procs[p].level, "", "", "")
       IN  /\ file' = IF r.outcome = "updated" THEN StatusAfterWrite(updater_output_path, r.file, file) ELSE file
           /\ matrix' = IF r.outcome = "updated" THEN MatrixAfterWrite(updater_output_path, r.file, matrix) ELSE matrix
           /\ now' = IF r.outcome = "updated" THEN now + 1 ELSE now
           /\ procs' = [procs EXCEPT ![p] = [@ EXCEPT !.pc = "done", !.outcome = r.outcome, !.at = now]]
    /\ UNCHANGED <<last, origin, builder, scan>>

Load == \E p \in DOMAIN procs : UpdaterLoad(p)

Finish == \E p \in DOMAIN procs : UpdaterFinish(p)

NextConc ==
    \/ Load
    \/ Finish

ConcSpec == InitConc /\ [][NextConc]_vars

-----------------------------------------------------------------------------
(* the rewrite of lines 64-72 step by step, and a crash in the middle of it *)

\* the text of a Ledger file, table by table, in the order toml.dump writes
FileText(f) ==
    LET order == EntryOrder(DOMAIN f.entries)
    IN  <<[header |-> f.metadata.last_updated], [metadata |-> f.metadata]>>
          \o [i \in DOMAIN order |-> [key |-> order[i], entry |-> f.entries[order[i]]]]
          \o <<[statistics |-> f.statistics]>>

open_for_append(f) == [partial |-> TRUE, text |-> FileText(f)]

\* open(STATUS_FILE, 'w') empties the file before anything is written
open_for_write(f) == [partial |-> TRUE, text |-> <<>>]

\* what reached the file when the run died before the dump was complete
crash_prefixes(text) == { SubSeq(text, 1, k) : k \in 0 .. Len(text) - 1 }

InitCrash ==
    /\ matrix \in Matrices
    /\ file \in {NoFile} \cup HistoricLedgers(matrix)
    /\ now = 1
    /\ last = NoCall
    /\ origin = IF file = NoFile THEN "absent" ELSE "historic"
    /\ procs = [p \in {1} |-> Idle]
    /\ builder = NoBuilder
    /\ scan = NoScan

UpdaterOpen(p) ==
    /\ procs[p].pc = "loaded"
    /\ LET r == update_requirement_status(loaded_ledger(procs[p].snap, file), now,
                                          procs[p].id, procs[p].level, "", "", "")
       IN  IF r.outcome = "updated"
           THEN /\ file' = open_for_write(file)
                /\ procs' = [procs EXCEPT ![p] = [@ EXCEPT !.pc = "writing", !.pending = r.file]]
           ELSE /\ file' = file
                /\ procs' = [procs EXCEPT ![p] = [@ EXCEPT !.pc = "done", !.outcome = r.outcome, !.at = now]]
    /\ UNCHANGED <<matrix, now, last, origin, builder, scan>>

UpdaterDump(p) ==
    /\ procs[p].pc = "writing"
    /\ file' = procs[p].pending
    /\ now' = now + 1
    /\ procs' = [procs EXCEPT ![p] = [@ EXCEPT !.pc = "done", !.outcome = "updated", !.at = now]]
    /\ UNCHANGED <<matrix, last, origin, builder, scan>>

UpdaterCrash(p) ==
    /\ procs[p].pc = "writing"
    /\ \E written \in crash_prefixes(FileText(procs[p].pending)) :
          file' = [file EXCEPT !.text = @ \o written]
    /\ procs' = [procs EXCEPT ![p] = [@ EXCEPT !.pc = "crashed", !.outcome = "crashed", !.at = now]]
    /\ UNCHANGED <<matrix, now, last, origin, builder, scan>>

Open == \E p \in DOMAIN procs : UpdaterOpen(p)

Dump == \E p \in DOMAIN procs : UpdaterDump(p)

Crash == \E p \in DOMAIN procs : UpdaterCrash(p)

NextCrash ==
    \/ Load
    \/ Open
    \/ Dump
    \/ Crash

CrashSpec == InitCrash /\ [][NextCrash]_vars

-----------------------------------------------------------------------------
(* tools/master_compliance_analyzer.py step by step: the analyzer object
   after load_master_requirements and scan_source_code, then
   analyze_implementation, then calculate_real_compliance *)

MaxScanReqs == 2      \* requirements in the master file

ScanRequirements ==
    { [keywords |-> <<"catalog">>,         text |-> <<"the">>],
      [keywords |-> <<"font", "catalog">>, text |-> <<"the">>],
      [keywords |-> <<>>,                  text |-> <<"font", "the", "font">>],
      [keywords |-> <<>>,                  text |-> <<"the">>] }

\* self.source_files: one file or several
Corpora == UNION { [N -> SourceFiles] : N \in (SUBSET ScanFileNames) \ {{}} }

NoResults == [total |-> 0, implemented |-> 0, partial |-> 0, not_implemented |-> 0,
              scores |-> <<>>, levels |-> <<>>]

NoCompliance == [raises |-> FALSE, total_requirements |-> 0, implemented_count |-> 0,
                 partial_count |-> 0, not_implemented_count |-> 0,
                 implemented_percentage |-> 0, partial_percentage |-> 0,
                 not_implemented_percentage |-> 0, weighted_compliance |-> 0]

InitScan ==
    /\ matrix \in {<<>>}
    /\ file = NoFile
    /\ now = 1
    /\ last = NoCall
    /\ origin = "absent"
    /\ procs = NoProcs
    /\ builder = NoBuilder
    /\ scan \in { [phase |-> "scanned", requirements |-> r, source_files |-> c,
                   results |-> NoResults, compliance |-> NoCompliance] :
                     r \in SeqsUpTo(ScanRequirements, MaxScanReqs), c \in Corpora }

CountLevel(levels, level) == Cardinality({ i \in DOMAIN levels : levels[i] = level })

\* the loop of lines 93-112 and self.results of lines 114-121
analyze_implementation(requirements, source_files) ==
    LET scores == [i \in DOMAIN requirements |-> calculate_evidence_score(requirements[i], source_files)]
        levels == [i \in DOMAIN requirements |-> implementation_level(scores[i])]
    IN  [total           |-> Len(requirements),
         implemented     |-> CountLevel(levels, "impl"),
         partial         |-> CountLevel(levels, "partial"),
         not_implemented |-> CountLevel(levels, "missing"),
         scores          |-> scores,
         levels          |-> levels]

\* the summary printed at lines 123-126 divides by len(self.requirements)
analysis_summary_raises(requirements) == Len(requirements) = 0

\* x / total * 100, in hundredths of a percent; ZeroDivisionError when total = 0
percentage_of_total(x, total) ==
    [raises |-> total = 0, value |-> IF total = 0 THEN 0 ELSE RoundDiv(x * 10000, total)]

weighted_compliance_unweighted(implemented, partial, total) ==
    IF total > 0 THEN RoundDiv((implemented * 100 + partial * 100) * 100, total) ELSE 0

\* (implemented * 100 + partial * 40) / total if total > 0 else 0, in hundredths
weighted_compliance(implemented, partial, total) ==
    IF total > 0 THEN RoundDiv((implemented * 100 + partial * 40) * 100, total) ELSE 0

calculate_real_compliance(results) ==
    LET total == results.total
        ip    == percentage_of_total(results.implemented, total)
        pp    == percentage_of_total(results.partial, total)
        np    == percentage_of_total(results.not_implemented, total)
    IN  [raises                     |-> ip.raises \/ pp.raises \/ np.raises,
         total_requirements         |-> total,
         implemented_count          |-> results.implemented,
         partial_count              |-> results.partial,
         not_implemented_count      |-> results.not_implemented,
         implemented_percentage     |-> ip.value,
         partial_percentage         |-> pp.value,
         not_implemented_percentage |-> np.value,
         weighted_compliance        |-> weighted_compliance(results.implemented, results.partial, total)]

AnalyzeImplementation ==
    /\ scan.phase = "scanned"
    /\ scan' = [scan EXCEPT
                  !.results = analyze_implementation(scan.requirements, scan.source_files),
                  !.phase = IF analysis_summary_raises(scan.requirements) THEN "failed" ELSE "analyzed"]
    /\ UNCHANGED <<matrix, file, now, last, origin, procs, builder>>

GenerateDefinitiveReport ==
    /\ scan.phase = "analyzed"
    /\ LET compliance == calculate_real_compliance(scan.results)
       IN  scan' = [scan EXCEPT !.compliance = compliance,
                                !.phase = IF compliance.raises THEN "failed" ELSE "reported"]
    /\ UNCHANGED <<matrix, file, now, last, origin, procs, builder>>

NextScan ==
    \/ AnalyzeImplementation
    \/ GenerateDefinitiveReport

ScanSpec == InitScan /\ [][NextScan]_vars

-----------------------------------------------------------------------------
(* scripts/convert_json_to_matrix.py: ISO_REQUIREMENTS_MASTER.json ->
   ISO_COMPLIANCE_MATRIX.toml, then initialize on the Matrix it wrote *)

RECURSIVE CountRecords(_, _)
CountRecords(sections, names) ==
    IF names = {} THEN 0
    ELSE LET n == CHOOSE x \in names : TRUE
         IN  Len(sections[n]) + CountRecords(sections, names \ {n})

\* the master file: the records of each section (a record is its id here)
\* and the total the extractor wrote into its metadata
JsonInputs ==
    { [sections |-> m, total_requirements |-> CountRecords(m, DOMAIN m)] : m \in Matrices }

NoToml == [empty |-> TRUE]

\* section_name.replace('section_', 'section_')
section_key_of(section_name) ==
    IF section_name[1] = "section_" THEN <<"section_", section_name[2]>> ELSE section_name

convert_section_to_toml_distinct(section_name, section_data) ==
    [total_requirements |-> Cardinality(Range(section_data)),
     requirements       |-> [i \in DOMAIN section_data |-> [id |-> section_data[i]]]]

convert_section_to_toml(section_name, section_data) ==
    [total_requirements |-> Len(section_data),
     requirements       |-> [i \in DOMAIN section_data |-> [id |-> section_data[i]]]]

create_compliance_matrix_toml_unmarked(json_data, t) ==
    [metadata        |-> [version |-> t, total_features |-> json_data.total_requirements,
                          immutable |-> json_data.total_requirements > 0],
     sections        |-> [k \in { section_key_of(n) : n \in DOMAIN json_data.sections } |->
                            LET n == CHOOSE x \in DOMAIN json_data.sections : section_key_of(x) = k
                            IN  convert_section_to_toml(n, json_data.sections[n])],
     overall_summary |-> [total_sections |-> Cardinality(DOMAIN json_data.sections),
                          total_requirements |-> json_data.total_requirements]]

create_compliance_matrix_toml(json_data, t) ==
    [metadata        |-> [version |-> t, total_features |-> json_data.total_requirements,
                          immutable |-> TRUE],
     sections        |-> [k \in { section_key_of(n) : n \in DOMAIN json_data.sections } |->
                            LET n == CHOOSE x \in DOMAIN json_data.sections : section_key_of(x) = k
                            IN  convert_section_to_toml(n, json_data.sections[n])],
     overall_summary |-> [total_sections |-> Cardinality(DOMAIN json_data.sections),
                          total_requirements |-> json_data.total_requirements]]

\* the Matrix file as load_compliance_matrix reads it: section -> ids of its requirements
MatrixOf(toml_data) ==
    [k \in DOMAIN toml_data.sections |->
        [i \in DOMAIN toml_data.sections[k].requirements |-> toml_data.sections[k].requirements[i].id]]

InitBuild ==
    /\ matrix \in {<<>>}
    /\ file = NoFile
    /\ now = 1
    /\ last = NoCall
    /\ origin = "absent"
    /\ procs = NoProcs
    /\ builder \in { [json_data |-> j, built |-> FALSE, toml_data |-> NoToml] : j \in JsonInputs }
    /\ scan = NoScan

Build ==
    /\ "json_data" \in DOMAIN builder
    /\ LET toml_data == create_compliance_matrix_toml(builder.json_data, now)
       IN  /\ builder' = [builder EXCEPT !.built = TRUE, !.toml_data = toml_data]
           /\ matrix' = MatrixOf(toml_data)
    /\ last' = [NoCall EXCEPT !.op = "build", !.outcome = "built"]
    /\ UNCHANGED <<file, now, origin, procs, scan>>

InitializeBuilt == builder.built /\ Initialize

InitializeBuiltCancelled == builder.built /\ InitializeCancelled

ReportBuilt == builder.built /\ GenerateReport

NextBuild ==
    \/ Build
    \/ InitializeBuilt
    \/ InitializeBuiltCancelled
    \/ ReportBuilt

BuildSpec == InitBuild /\ [][NextBuild]_vars

-----------------------------------------------------------------------------
(* Vocabulary of the properties *)

Abs(x) == IF x < 0 THEN -x ELSE x

LedgerIds(f) == { h.id : h \in DOMAIN f.entries }

EntriesOf(f, id) == { h \in DOMAIN f.entries : h.id = id }

NumEntries(f) == Cardinality(DOMAIN f.entries)

TotalLevel(f) == SumLevels(f.entries, DOMAIN f.entries)

CountSum(f) ==
    f.statistics.level_0_count + f.statistics.level_1_count + f.statistics.level_2_count
      + f.statistics.level_3_count + f.statistics.level_4_count

JustInitialized == last.op = "initialize" /\ last.outcome = "created"

JustUpdated == last.op = "set_level" /\ last.outcome = "updated"

Failed(outcome) == outcome \in {"no_file", "invalid_level", "not_found"}

\* the Ledger without its three timestamp fields
NoTimestamps(f) ==
    IF f = NoFile THEN f
    ELSE [metadata   |-> [f.metadata EXCEPT !.last_updated = 0],
          statistics |-> [f.statistics EXCEPT !.last_calculated = 0],
          entries    |-> [h \in DOMAIN f.entries |-> [f.entries[h] EXCEPT !.last_checked = 0]]]

-----------------------------------------------------------------------------
(* Claims *)

\* C1 (as stated): after initialize(matrix) the Ledger holds exactly one entry
\* for every requirement id of the Matrix, at level 0, verified = false,
\* last_checked = "never", and no entry for any other id, whatever the names
\* of the Matrix sections.
C1_Original ==
    JustInitialized =>
        /\ LedgerIds(file) = MatrixIds(matrix)
        /\ \A id \in MatrixIds(matrix) : Cardinality(EntriesOf(file, id)) = 1
        /\ \A h \in DOMAIN file.entries :
              /\ file.entries[h].level = 0
              /\ file.entries[h].verified = FALSE
              /\ file.entries[h].last_checked = Never

\* C2 (as stated): initialize on a Matrix that holds two requirements with the
\* same id fails; it never completes by creating a Ledger.
C2_Original ==
    (last.op = "initialize" /\ last.outcome # "cancelled" /\ HasDuplicateIds(matrix))
        => last.outcome # "created"

\* C3 (as stated): on a Ledger produced by initialize, set_level(id, L) with
\* L in 0..4 and id a requirement id of the Matrix succeeds, and the entry of
\* id then has level L, verified = (L >= 3) and a last_checked timestamp.
C3_Original ==
    (origin = "initialize" /\ last.op = "set_level" /\ last.level \in 0..4
       /\ last.id \in MatrixIds(matrix))
        => /\ last.outcome = "updated"
           /\ \E h \in EntriesOf(file, last.id) :
                 /\ file.entries[h].level = last.level
                 /\ file.entries[h].verified = (last.level >= 3)
                 /\ file.entries[h].last_checked # Never

\* C4: a set_level call whose level is outside 0..4, or whose id has no entry
\* in the Ledger, reports failure and leaves the persisted Ledger exactly as
\* it was (entries, Statistics and metadata; nothing clamped, nothing written).
C4_FailedSetLevelWritesNothing ==
    [][ (last'.op = "set_level"
           /\ (last'.level \notin 0..4 \/ file = NoFile \/ last'.id \notin LedgerIds(file)))
          => (Failed(last'.outcome) /\ file' = file) ]_vars

\* C4 witness: a call with an invalid level on a Ledger in which the id would
\* have been found has been rejected.
C4_Witness ==
    /\ last.op = "set_level" /\ last.outcome = "invalid_level"
    /\ file # NoFile
    /\ status_key(last.id) \in DOMAIN toml_load(file).entries

C6_Original ==
    (JustInitialized \/ JustUpdated) =>
        /\ CountSum(file) = file.metadata.total_requirements
        /\ CountSum(file) = NumEntries(file)

\* C7: whenever a Ledger is persisted, average_level is within 1e-3 of the sum
\* of the entries' levels divided by the number of entries (0.0 when there is
\* no entry).  In thousandths: |avg * n - 1000 * sum| <= n.
C7_AverageLevel ==
    file # NoFile =>
        IF NumEntries(file) = 0 THEN file.statistics.average_level = 0
        ELSE Abs(file.statistics.average_level * NumEntries(file) - 1000 * TotalLevel(file))
                <= NumEntries(file)

\* C7 witness: a successful set_level left three entries whose average is not
\* a whole number of thousandths, so the stored value is a rounded one.
C7_Witness ==
    /\ JustUpdated
    /\ NumEntries(file) = 3
    /\ file.statistics.average_level * 3 # 1000 * TotalLevel(file)

\* C8 (as stated): the stored compliance_percentage is within 1e-3 of the
\* stored average_level / 4 * 100.  With c in hundredths and a in thousandths:
\* |c/100 - a/40| <= 1/1000, that is |10c - 25a| <= 1.
C8_Original ==
    file # NoFile =>
        Abs(10 * file.statistics.compliance_percentage - 25 * file.statistics.average_level) <= 1

\* C8 (amended): the stored compliance_percentage is within 2e-2 of the stored
\* average_level / 4 * 100: |10c - 25a| <= 20.
C8_ComplianceWithinRounding ==
    file # NoFile =>
        Abs(10 * file.statistics.compliance_percentage - 25 * file.statistics.average_level) <= 20

\* C8 witness: after a successful set_level the two stored values differ by
\* more than 1e-3 (both were rounded).
C8_Witness ==
    /\ JustUpdated
    /\ Abs(10 * file.statistics.compliance_percentage - 25 * file.statistics.average_level) > 1

\* C9: in every persisted Ledger every entry has verified = (level >= 3).
C9_VerifiedDerived ==
    file # NoFile =>
        \A h \in DOMAIN file.entries : file.entries[h].verified = (file.entries[h].level >= 3)

\* C9 witness: an entry at level 3 or 4 has been lowered below 3 and is no
\* longer verified.
C9_Witness ==
    /\ JustUpdated
    /\ last.old_level >= 3 /\ last.level < 3
    /\ \E h \in EntriesOf(file, last.id) :
          file.entries[h].level = last.level /\ file.entries[h].verified = FALSE

\* C10: in every persisted Ledger every entry's level is one of 0..4, and the
\* statistics a successful set_level recomputed put every entry in exactly one
\* bucket: each count is the number of entries at that level, none is skipped.
C10_LevelsPartition ==
    file # NoFile =>
        /\ \A h \in DOMAIN file.entries : file.entries[h].level \in 0..4
        /\ JustUpdated =>
              /\ CountSum(file) = NumEntries(file)
              /\ file.statistics.level_0_count = Cardinality({h \in DOMAIN file.entries : file.entries[h].level = 0})
              /\ file.statistics.level_1_count = Cardinality({h \in DOMAIN file.entries : file.entries[h].level = 1})
              /\ file.statistics.level_2_count = Cardinality({h \in DOMAIN file.entries : file.entries[h].level = 2})
              /\ file.statistics.level_3_count = Cardinality({h \in DOMAIN file.entries : file.entries[h].level = 3})
              /\ file.statistics.level_4_count = Cardinality({h \in DOMAIN file.entries : file.entries[h].level = 4})

\* C10 witness: a successful set_level left entries in at least two different
\* buckets.
C10_Witness ==
    /\ JustUpdated
    /\ NumEntries(file) >= 2
    /\ file.statistics.level_0_count < NumEntries(file)
    /\ file.statistics.level_4_count > 0
    /\ file.statistics.level_3_count > 0

\* C11: a set_level that succeeds leaves the set of requirement ids of the
\* Ledger as it was, and every entry of another id keeps all its fields.
C11_SetLevelFrame ==
    [][ (last'.op = "set_level" /\ last'.outcome = "updated") =>
            /\ LedgerIds(file') = LedgerIds(file)
            /\ \A h \in DOMAIN file.entries :
                   h.id # last'.id =>
                       \E g \in DOMAIN file'.entries : g.id = h.id /\ file'.entries[g] = file.entries[h] ]_vars

C11_Witness ==
    /\ JustUpdated
    /\ last.level # last.old_level
    /\ \E h \in DOMAIN file.entries : h.id # last.id /\ file.entries[h].last_checked < now - 1

\* C12: no step of initialize, of the updater, of the report generator or of
\* the scanner changes the Matrix.
C12_MatrixImmutable == [][matrix' = matrix]_vars

C12_Witness ==
    /\ now = MaxClock
    /\ last.op \in {"initialize", "set_level"}
    /\ last.outcome \in {"created", "updated"}
    /\ MatrixIds(matrix) # {}

\* C13: a scanner run, a report in any format, a show and a stats command
\* leave the persisted Ledger exactly as they found it.
C13_ReadOnlyTools ==
    [][ last'.op \in {"scan", "report", "show", "stats"} => file' = file ]_vars

C13_Witness ==
    /\ last.op = "report"
    /\ last.outcome = "rendered"
    /\ file # NoFile
    /\ NumEntries(file) > 1
    /\ origin = "initialize"

\* C14 (as stated): the updater command ends with exit code 0 after a
\* successful update and with exit code 1 after a failed one (level invalid,
\* id unknown, Ledger file missing).
C14_Original ==
    last.op = "set_level" =>
        /\ last.outcome = "updated" => last.exit = 0
        /\ Failed(last.outcome) => last.exit = 1

\* C15 (as stated): persisting a Ledger and reloading it yields the same set
\* of requirement keys, the same fields per entry and the same statistics:
\* here for the Ledger that initialize has just saved.
C15_Original ==
    JustInitialized =>
        toml_load(file) = create_initial_status(matrix, extract_all_requirement_ids(matrix), now - 1)

\* C16 (as stated): on a Ledger with an entry whose level is outside 0..4
\* neither the updater's recalculation nor the report generator completes
\* normally.
C16_Original ==
    ((last.op = "set_level" /\ last.outcome = "updated") \/ (last.op = "report" /\ last.outcome = "rendered")) =>
        \A h \in DOMAIN file.entries : file.entries[h].level \in 0 .. 4

\* C17: when two updater invocations on different ids of the Ledger have both
\* loaded it before either wrote, both report success, the file holds the
\* later writer's change and the earlier writer's entry is as it was loaded.
C17_LastWriterWins ==
    \A p, q \in DOMAIN procs :
        ( /\ procs[p].pc = "done" /\ procs[q].pc = "done"
          /\ procs[p].snap # NoFile /\ procs[q].snap = procs[p].snap
          /\ procs[p].id # procs[q].id
          /\ {status_key(procs[p].id), status_key(procs[q].id)} \subseteq DOMAIN toml_load(procs[p].snap).entries
          /\ procs[p].at < procs[q].at )
        => /\ procs[p].outcome = "updated" /\ procs[q].outcome = "updated"
           /\ \A h \in EntriesOf(file, procs[q].id) : file.entries[h].level = procs[q].level
           /\ \A h \in EntriesOf(file, procs[p].id) :
                 \E g \in EntriesOf(procs[p].snap, procs[p].id) : file.entries[h] = procs[p].snap.entries[g]

C17_Witness ==
    \E p, q \in DOMAIN procs :
        /\ procs[p].pc = "done" /\ procs[q].pc = "done"
        /\ procs[p].outcome = "updated" /\ procs[q].outcome = "updated"
        /\ procs[p].id # procs[q].id
        /\ procs[p].at < procs[q].at
        /\ \E h \in EntriesOf(file, procs[p].id) : file.entries[h].level # procs[p].level

\* C18: after a crash between the opening of the Ledger file for rewriting
\* and the end of the dump, the file holds neither the complete previous
\* Ledger nor the complete new one.
C18_CrashLeavesPartialFile ==
    \A p \in DOMAIN procs :
        procs[p].pc = "crashed" =>
            /\ file.text # FileText(procs[p].snap)
            /\ file.text # FileText(procs[p].pending)

C18_Witness ==
    \E p \in DOMAIN procs :
        /\ procs[p].pc = "crashed"
        /\ Len(file.text) > 1
        /\ NumEntries(procs[p].snap) > 1

\* C19 (as stated): in the report's recent-activity list no never-checked
\* entry stands before an entry that has a timestamp, and the timestamps
\* descend.
C19_Original ==
    (last.op = "report" /\ last.outcome = "rendered") =>
        LET r == generate_markdown_report(file).recent_updates
        IN  \A i, j \in DOMAIN r :
                i < j => /\ ~(r[i].last_checked = Never /\ r[j].last_checked # Never)
                         /\ (r[i].last_checked # Never /\ r[j].last_checked # Never)
                               => r[i].last_checked >= r[j].last_checked

\* C20: a report rendered from a Ledger with no entries completes without
\* error and states zero total requirements (and zero for every level).
C20_EmptyLedgerReport ==
    (last.op = "report" /\ file # NoFile /\ NumEntries(file) = 0) =>
        /\ last.outcome = "rendered"
        /\ last.exit = 0
        /\ generate_markdown_report(file).total_requirements = 0
        /\ \A i \in 1 .. 5 : generate_markdown_report(file).breakdown[i] = 0
        /\ generate_markdown_report(file).recent_updates = <<>>

C20_Witness ==
    /\ last.op = "report"
    /\ last.outcome = "rendered"
    /\ file # NoFile
    /\ NumEntries(file) = 0

\* what one (source file, keyword) pair adds to the score of a requirement
PairContribution(req, source_files, name, w) ==
    KeywordScore(w, source_files, {name})
      * Cardinality({ pos \in DOMAIN requirement_keywords(req) : requirement_keywords(req)[pos] = w })

\* C21 (as stated): with T_full = 5, T_partial = 3 and cap = 5, a requirement
\* with the keyword set {"catalog"} scanned over one source file that holds
\* "catalog" 5 times has score 5 and is classified implemented.
C21_Original ==
    scan.phase \in {"analyzed", "reported"} =>
        \A i \in DOMAIN scan.requirements :
            ( /\ scan.requirements[i].keywords = <<"catalog">>
              /\ Cardinality(DOMAIN scan.source_files) = 1
              /\ \A name \in DOMAIN scan.source_files : scan.source_files[name]["catalog"] = 5 )
            => /\ scan.results.scores[i] = 5
               /\ scan.results.levels[i] = "impl"

\* C22: over a non-empty requirement set every requirement is counted in
\* exactly one of implemented, partial, missing, the weighted coverage is
\* (implemented*100 + partial*40) / total (here in hundredths, to the nearest
\* hundredth) and lies between 0 and 100.
C22_WeightedCoverage ==
    (scan.phase = "reported" /\ Len(scan.requirements) > 0) =>
        LET c == scan.compliance
            total == Len(scan.requirements)
        IN  /\ c.total_requirements = total
            /\ c.implemented_count + c.partial_count + c.not_implemented_count = total
            /\ \A i \in DOMAIN scan.requirements : scan.results.levels[i] \in {"impl", "partial", "missing"}
            /\ c.implemented_count = CountLevel(scan.results.levels, "impl")
            /\ c.partial_count = CountLevel(scan.results.levels, "partial")
            /\ c.not_implemented_count = CountLevel(scan.results.levels, "missing")
            /\ 2 * Abs(c.weighted_compliance * total - (c.implemented_count * 100 + c.partial_count * 40) * 100) <= total
            /\ 0 <= c.weighted_compliance /\ c.weighted_compliance <= 10000

C22_Witness ==
    /\ scan.phase = "reported"
    /\ scan.compliance.implemented_count > 0
    /\ scan.compliance.partial_count > 0
    /\ scan.compliance.weighted_compliance = 7000

C24_EmptyInput ==
    (builder.built /\ DOMAIN builder.json_data.sections = {}) =>
        /\ builder.toml_data.metadata.immutable
        /\ DOMAIN builder.toml_data.sections = {}
        /\ builder.toml_data.overall_summary.total_sections = 0
        /\ builder.toml_data.overall_summary.total_requirements = 0
        /\ MatrixIds(matrix) = {}
        /\ JustInitialized =>
              /\ file # NoFile
              /\ NumEntries(file) = 0
              /\ file.metadata.total_requirements = 0
              /\ CountSum(file) = 0

C24_Witness ==
    /\ builder.built
    /\ DOMAIN builder.json_data.sections = {}
    /\ JustInitialized
    /\ NumEntries(file) = 0

\* C25 (as stated): no single (source file, keyword) pair adds more than the
\* cap to a requirement's score, also when the keywords come from the text.
C25_Original ==
    scan.phase \in {"analyzed", "reported"} =>
        \A i \in DOMAIN scan.requirements, name \in DOMAIN scan.source_files, w \in ScanWords :
            PairContribution(scan.requirements[i], scan.source_files, name, w) <= PerFileCap

\* C26 (as stated): on a Ledger that initialize wrote, set_level and show on
\* an id of the Ledger find the entry and never report it as not found.
C26_Original ==
    (origin = "initialize" /\ last.op \in {"set_level", "show"} /\ last.id \in LedgerIds(file)) =>
        last.outcome # "not_found"

\* C27: a successful set_level keeps the previous implementation, test_file
\* or notes of the entry when the argument is empty and replaces it when the
\* argument is not; level, verified and last_checked are always overwritten.
C27_OptionalFieldsFrame ==
    [][ (last'.op = "set_level" /\ last'.outcome = "updated") =>
            \A h \in EntriesOf(file, last'.id) : \A g \in EntriesOf(file', last'.id) :
                LET old == file.entries[h]
                    new == file'.entries[g]
                    arg == last'.texts
                IN  /\ new.implementation = IF arg[1] = "" THEN old.implementation ELSE arg[1]
                    /\ new.test_file = IF arg[2] = "" THEN old.test_file ELSE arg[2]
                    /\ new.notes = IF arg[3] = "" THEN old.notes ELSE arg[3]
                    /\ new.level = last'.level
                    /\ new.verified = (last'.level >= 3)
                    /\ new.last_checked = now ]_vars

C27_Witness ==
    /\ JustUpdated
    /\ last.texts[1] # "" /\ last.texts[3] = ""
    /\ \E h \in EntriesOf(file, last.id) :
          /\ file.entries[h].implementation = last.texts[1]
          /\ file.entries[h].notes = InitialEntry.notes
          /\ file.entries[h].test_file = ""

\* C28: with whole-file writes atomic, under every interleaving of updater
\* invocations the persisted Ledger's counts, average_level and
\* compliance_percentage are those of the entries in the same file.
C28_ConcurrentConsistency ==
    file # NoFile =>
        /\ \A l \in 0 .. 4 :
              <<file.statistics.level_0_count, file.statistics.level_1_count, file.statistics.level_2_count,
                file.statistics.level_3_count, file.statistics.level_4_count>>[l + 1]
                 = Cardinality({ h \in DOMAIN file.entries : file.entries[h].level = l })
        /\ file.statistics.average_level = average_level(TotalLevel(file), NumEntries(file))
        /\ file.statistics.compliance_percentage = compliance_percentage(TotalLevel(file), NumEntries(file))

C28_Witness ==
    /\ \A p \in DOMAIN procs : procs[p].pc = "done" /\ procs[p].outcome = "updated"
    /\ \E p, q \in DOMAIN procs :
          /\ procs[p].id # procs[q].id
          /\ procs[p].at < procs[q].at
          /\ \E h \in EntriesOf(file, procs[p].id) : file.entries[h].level # procs[p].level
    /\ TotalLevel(file) > 0

\* C29: an entry whose last_checked is "never" is at level 0 and not
\* verified, and no set_level takes an entry that has a timestamp back to
\* "never".
C29_NeverOnlyAtLevel0 ==
    /\ [](file # NoFile =>
             \A h \in DOMAIN file.entries :
                 file.entries[h].last_checked = Never =>
                     (file.entries[h].level = 0 /\ ~file.entries[h].verified))
    /\ [][ (last'.op = "set_level" /\ file # NoFile) =>
               \A h \in DOMAIN file.entries :
                   file.entries[h].last_checked # Never =>
                       \A g \in EntriesOf(file', h.id) : file'.entries[g].last_checked # Never ]_vars

C29_Witness ==
    /\ JustUpdated
    /\ last.old_level = 0
    /\ last.level > 0
    /\ \A h \in EntriesOf(file, last.id) : file.entries[h].last_checked = now - 1

\* C30 (as stated): with zero requirements loaded, analyze_implementation and
\* calculate_real_compliance complete without error and report a weighted
\* coverage of 0 and percentages of 0.
C30_Original ==
    (scan.phase # "scanned" /\ Len(scan.requirements) = 0) =>
        /\ scan.phase # "failed"
        /\ ~calculate_real_compliance(scan.results).raises
        /\ calculate_real_compliance(scan.results).weighted_compliance = 0
        /\ calculate_real_compliance(scan.results).implemented_percentage = 0

=============================================================================
